---- MODULE Spec2Model ----
(***************************************************************************)
(* Real-time room synchronisation of listerys/real-chat.                   *)
(*                                                                         *)
(* Server: backend/src/index.ts, the socket.io handlers 'join-room',       *)
(* 'send-message' and 'disconnect' on the default in-memory adapter, with  *)
(* the messages table of the Store behind them.  Every `await` of a        *)
(* handler is a point where other handlers run, so a handler is a small    *)
(* process: its record sits in `handlers` from its first await to its      *)
(* return.                                                                 *)
(*                                                                         *)
(* Client: the App component (selectRoom, sendMessage, the socket          *)
(* listeners), which consumes the events the server wrote to its socket.   *)
(***************************************************************************)
EXTENDS Integers, Sequences, FiniteSets, TLC

\* ------------------------------------------------------------- bounds
MaxOps == 2          \* handler invocations (join-room, send-message) of Spec
MaxOpsOneRoom == 3   \* handler invocations of SpecOneRoom
MaxOpsApp == 3       \* handler invocations of SpecApp
MaxOpsSwitch == 2    \* handler invocations of SpecSwitch
MaxPosts == 1        \* POST /api/rooms requests of SpecRooms

\* ------------------------------------------------------------- universe
Sessions == {"s1", "s2"}            \* socket ids
RoomIds == {"r1", "r2"}             \* rows of the rooms table
Space == " "
Texts == {<<Space>>, <<"h">>}       \* message texts, as character sequences

VARIABLES
  status,        \* socket -> "none" | "connected" | "disconnected"
  rooms,         \* adapter: room id -> set of sockets joined to it
  store,         \* messages table, in commit order
  handlers,      \* handler invocations suspended at an await
  outbox,        \* socket -> events the server emitted to it, in order
  nextId,        \* number of the next handler invocation; the server clock
  joined,        \* history: socket -> rooms it issued join-room for
  finished,      \* history: handler invocations that returned
  selectedRoom,  \* client: App.selectedRoom (room id or NoRoom)
  messages,      \* client: App.messages
  historyListener, \* client: a once('room-history') listener is registered
  rcvd,          \* client: number of events of outbox consumed
  lastJoin,      \* history: invocation number of the client's latest join-room
  installedReq,  \* history: invocation whose room-history App.messages was set from
  refreshes      \* client: calls of fetchUserRooms() made by handleNewRoom

vars == <<status, rooms, store, handlers, outbox, nextId, joined, finished,
          selectedRoom, messages, historyListener, rcvd, lastJoin, installedReq,
          refreshes>>
serverVars == <<status, rooms, store, handlers, outbox, nextId, joined, finished>>
clientVars == <<selectedRoom, messages, historyListener, rcvd, lastJoin, installedReq,
                refreshes>>

NoRoom == "none"

Init ==
  /\ status = [s \in Sessions |-> "none"]
  /\ rooms = [r \in RoomIds |-> {}]
  /\ store = << >>
  /\ handlers = {}
  /\ outbox = [s \in Sessions |-> << >>]
  /\ nextId = 1
  /\ joined = [s \in Sessions |-> {}]
  /\ finished = {}
  /\ selectedRoom = [s \in Sessions |-> NoRoom]
  /\ messages = [s \in Sessions |-> << >>]
  /\ historyListener = [s \in Sessions |-> FALSE]
  /\ rcvd = [s \in Sessions |-> 0]
  /\ lastJoin = [s \in Sessions |-> 0]
  /\ installedReq = [s \in Sessions |-> 0]
  /\ refreshes = [s \in Sessions |-> 0]

\* ------------------------------------------------------------- helpers
Range(q) == {q[i] : i \in 1..Len(q)}

\* String.prototype.trim on a character sequence
RECURSIVE TrimLeft(_)
TrimLeft(t) == IF t # << >> /\ Head(t) = Space THEN TrimLeft(Tail(t)) ELSE t
RECURSIVE TrimRight(_)
TrimRight(t) ==
  IF t # << >> /\ t[Len(t)] = Space THEN TrimRight(SubSeq(t, 1, Len(t) - 1)) ELSE t
Trim(t) == TrimRight(TrimLeft(t))

\* ------------------------------------------------------------- events
ErrorEvent(id, text, w) == [type |-> "error", req |-> id, message |-> text, written |-> w]
HistoryEvent(id, r, h, n, w) ==
  [type |-> "room-history", req |-> id, room |-> r, history |-> h, asOf |-> n,
   written |-> w]
NewMessageEvent(m) == [type |-> "new-message", msg |-> m, written |-> TRUE]
ActiveUsersEvent(id, r, n) ==
  [type |-> "active-users", req |-> id, room |-> r, count |-> n, written |-> TRUE]

\* socket.emit(e): the packet is written only while the connection is open
EmitTo(ob, s, e) == [ob EXCEPT ![s] = Append(@, e)]
Open(s) == status[s] = "connected"

\* io.to(roomId).emit(e): every socket the adapter holds for the room
Broadcast(ob, to, e) == [t \in Sessions |-> IF t \in to THEN Append(ob[t], e) ELSE ob[t]]

NewRoomEvent(room, all) ==
  [type |-> "new-room", data |-> [room |-> room, participants |-> all],
   written |-> TRUE]

\* ------------------------------------------------------------- the Store
\* supabase.from('messages').select('*').eq('room_id', r): the room's rows
RoomRows(r) == SelectSeq(store, LAMBDA m : m.room_id = r)

IsAscending(h) == \A i, j \in 1..Len(h) : i < j => h[i].created_at <= h[j].created_at

Reorderings(q) ==
  {[i \in 1..Len(q) |-> q[p[i]]] : p \in Permutations(1..Len(q))}

\* (mutant) the query answers from a snapshot that lacks the latest row
StoreHistoriesStale(r) ==
  {h \in Reorderings(SubSeq(RoomRows(r), 1, Len(RoomRows(r)) - 1)) : IsAscending(h)}

\* .order('created_at', {ascending: true}): any order of the rows that is
\* ascending in created_at (rows of one timestamp come in either order)
StoreHistories(r) == {h \in Reorderings(RoomRows(r)) : IsAscending(h)}

\* ------------------------------------------------------------- connection
\* io.on('connection'): a socket is connected; its handlers are registered
Connect(s) ==
  /\ status[s] = "none"
  /\ status' = [status EXCEPT ![s] = "connected"]
  /\ UNCHANGED <<rooms, store, handlers, outbox, nextId, joined, finished>>

\* socket.on('disconnect'): the handler logs; socket.io has already taken the
\* socket out of every room.  No event is emitted.
DisconnectEmits(s) == outbox

Disconnect(s) ==
  /\ Open(s)
  /\ status' = [status EXCEPT ![s] = "disconnected"]
  /\ rooms' = [r \in RoomIds |-> rooms[r] \ {s}]
  /\ outbox' = DisconnectEmits(s)
  /\ UNCHANGED <<store, handlers, nextId, joined, finished>>

\* ------------------------------------------------------------- join-room
\* (mutant) joining a room leaves the other rooms
SocketJoinExclusive(s, r) ==
  [q \in RoomIds |-> IF q = r THEN rooms[q] \cup {s} ELSE rooms[q] \ {s}]

\* (mutant) joining a room the socket is in takes it out
SocketJoinToggle(s, r) ==
  [rooms EXCEPT ![r] = IF s \in @ THEN @ \ {s} ELSE @ \cup {s}]

\* socket.join(roomId): the adapter adds the socket id to the room's Set
SocketJoin(s, r) == [rooms EXCEPT ![r] = @ \cup {s}]

\* socket.on('join-room'), up to the await of the history query
JoinRoom(s, r) ==
  /\ Open(s)
  /\ rooms' = SocketJoin(s, r)
  /\ joined' = [joined EXCEPT ![s] = @ \cup {r}]
  /\ handlers' = handlers \cup
       {[id |-> nextId, kind |-> "join", s |-> s, room |-> r, pc |-> "select",
         err |-> FALSE, msgs |-> << >>, asOf |-> 0, clients |-> {}, reads |-> 0]}
  /\ nextId' = nextId + 1
  /\ UNCHANGED <<status, store, outbox, finished>>

\* the Store answers the history query of join handler o: the rows, or an
\* error (asOf and reads are history: the length of the table at the read,
\* the number of reads of this invocation)
StoreSelect(o) ==
  /\ o \in handlers /\ o.kind = "join" /\ o.pc = "select"
  /\ \/ \E h \in StoreHistories(o.room) :
          handlers' = (handlers \ {o}) \cup
            {[o EXCEPT !.pc = "selected", !.msgs = h, !.asOf = Len(store),
                      !.reads = @ + 1]}
     \/ handlers' = (handlers \ {o}) \cup
            {[o EXCEPT !.pc = "selected", !.err = TRUE, !.reads = @ + 1]}
  /\ UNCHANGED <<status, rooms, store, outbox, nextId, joined, finished>>

Done(o) == [id |-> o.id, kind |-> o.kind, s |-> o.s, room |-> o.room, err |-> o.err,
            reads |-> IF o.kind = "join" THEN o.reads ELSE 0,
            text |-> IF o.kind = "send" THEN o.msg.text ELSE << >>]

\* (mutant) the error branch takes the socket out of the room again
JoinErrorRoomsLeave(o) == [rooms EXCEPT ![o.room] = @ \ {o.s}]

\* if (error) { socket.emit('error', ...); return; }
JoinErrorEmits(o) ==
  EmitTo(outbox, o.s, ErrorEvent(o.id, "Failed to load room history", Open(o.s)))
JoinErrorRooms(o) == rooms

\* (mutant) the history goes to the room instead of the joining socket
JoinHistoryEmitsToRoom(o) ==
  Broadcast(outbox, rooms[o.room], HistoryEvent(o.id, o.room, o.msgs, o.asOf, TRUE))

\* socket.emit('room-history', msgs || [])
JoinHistoryEmits(o) ==
  EmitTo(outbox, o.s, HistoryEvent(o.id, o.room, o.msgs, o.asOf, Open(o.s)))

\* the join handler resumes after the history query
JoinResume(o) ==
  /\ o \in handlers /\ o.kind = "join" /\ o.pc = "selected"
  /\ IF o.err
       THEN /\ outbox' = JoinErrorEmits(o)
            /\ rooms' = JoinErrorRooms(o)
            /\ handlers' = handlers \ {o}
            /\ finished' = finished \cup {Done(o)}
       ELSE /\ outbox' = JoinHistoryEmits(o)
            /\ rooms' = rooms
            \* io.in(roomId).allSockets(): the adapter's set at the call
            /\ handlers' = (handlers \ {o}) \cup
                 {[o EXCEPT !.pc = "allSockets", !.clients = rooms[o.room]]}
            /\ finished' = finished
  /\ UNCHANGED <<status, store, nextId, joined>>

\* io.to(roomId).emit('active-users', clients.size), after the await
JoinPresence(o) ==
  /\ o \in handlers /\ o.kind = "join" /\ o.pc = "allSockets"
  /\ outbox' = Broadcast(outbox, rooms[o.room],
                         ActiveUsersEvent(o.id, o.room, Cardinality(o.clients)))
  /\ handlers' = handlers \ {o}
  /\ finished' = finished \cup {Done(o)}
  /\ UNCHANGED <<status, rooms, store, nextId, joined>>

\* ------------------------------------------------------------- send-message
\* const msg = {room_id, user_email, text, created_at: new Date()...}: the
\* clock reads later at every handler start, so the invocation number is the
\* timestamp (id names the row; the table assigns it)
NewMsg(n, s, r, text) ==
  [id |-> n, room_id |-> r, user_email |-> s, text |-> text, created_at |-> n]

\* socket.on('send-message'), up to the await of the insert
SendMessage(s, r, text) ==
  /\ Open(s)
  /\ handlers' = handlers \cup
       {[id |-> nextId, kind |-> "send", s |-> s, room |-> r, pc |-> "insert",
         err |-> FALSE, msg |-> NewMsg(nextId, s, r, text)]}
  /\ nextId' = nextId + 1
  /\ UNCHANGED <<status, rooms, store, outbox, joined, finished>>

\* the Store answers the insert of send handler o: the row is committed, or
\* the insert fails and the table is as it was
StoreInsert(o) ==
  /\ o \in handlers /\ o.kind = "send" /\ o.pc = "insert"
  /\ \/ /\ store' = Append(store, o.msg)
        /\ handlers' = (handlers \ {o}) \cup {[o EXCEPT !.pc = "inserted"]}
     \/ /\ store' = store
        /\ handlers' = (handlers \ {o}) \cup {[o EXCEPT !.pc = "inserted", !.err = TRUE]}
  /\ UNCHANGED <<status, rooms, outbox, nextId, joined, finished>>

\* (mutant) socket.to(roomId): the room without the sender
RecipientsButSender(o) == rooms[o.room] \ {o.s}

\* (mutant) nothing is broadcast for a sender that has gone
RecipientsIfSenderOpen(o) == IF Open(o.s) THEN rooms[o.room] ELSE {}

\* io.to(roomId): the sockets the message goes to
Recipients(o) == rooms[o.room]

\* (mutant) the result of the insert is not looked at
SendEmitsUnchecked(o) == Broadcast(outbox, Recipients(o), NewMessageEvent(o.msg))

\* (mutant) the error goes to the room
SendEmitsErrorToRoom(o) ==
  IF o.err
    THEN Broadcast(outbox, Recipients(o), ErrorEvent(o.id, "Failed to send message", TRUE))
    ELSE Broadcast(outbox, Recipients(o), NewMessageEvent(o.msg))

\* (mutant) a sender outside the room is refused
SendEmitsMembersOnly(o) ==
  IF o.err \/ o.s \notin rooms[o.room]
    THEN EmitTo(outbox, o.s, ErrorEvent(o.id, "Failed to send message", Open(o.s)))
    ELSE Broadcast(outbox, Recipients(o), NewMessageEvent(o.msg))

\* if (error) { socket.emit('error', ...); return; }
\* io.to(roomId).emit('new-message', msg)
SendEmits(o) ==
  IF o.err
    THEN EmitTo(outbox, o.s, ErrorEvent(o.id, "Failed to send message", Open(o.s)))
    ELSE Broadcast(outbox, Recipients(o), NewMessageEvent(o.msg))

\* the send handler resumes after the insert
SendResume(o) ==
  /\ o \in handlers /\ o.kind = "send" /\ o.pc = "inserted"
  /\ outbox' = SendEmits(o)
  /\ handlers' = handlers \ {o}
  /\ finished' = finished \cup {Done(o)}
  /\ UNCHANGED <<status, rooms, store, nextId, joined>>

\* ------------------------------------------------------------- specification
\* (mutant) the await of allSockets() yields to the event loop
MicrotaskNever == FALSE

\* The event loop runs one task at a time.  allSockets() of the in-memory
\* adapter returns a resolved promise, so the rest of the join handler is a
\* microtask: it runs before the loop takes another task (a packet, a close,
\* a response of the Store).
MicrotaskPending == \E o \in handlers : o.pc = "allSockets"

\* the server under arbitrary socket clients: at most n handler invocations,
\* on the room ids R, with the texts T
ServerNext(n, R, T) ==
  \/ \E s \in Sessions : ~MicrotaskPending /\ Connect(s) /\ UNCHANGED clientVars
  \/ \E s \in Sessions : ~MicrotaskPending /\ Disconnect(s) /\ UNCHANGED clientVars
  \/ \E s \in Sessions, r \in R :
       ~MicrotaskPending /\ nextId <= n /\ JoinRoom(s, r) /\ UNCHANGED clientVars
  \/ \E s \in Sessions, r \in R, text \in T :
       ~MicrotaskPending /\ nextId <= n /\ SendMessage(s, r, text) /\ UNCHANGED clientVars
  \/ \E o \in handlers : ~MicrotaskPending /\ StoreSelect(o) /\ UNCHANGED clientVars
  \/ \E o \in handlers : ~MicrotaskPending /\ JoinResume(o) /\ UNCHANGED clientVars
  \/ \E o \in handlers : JoinPresence(o) /\ UNCHANGED clientVars
  \/ \E o \in handlers : ~MicrotaskPending /\ StoreInsert(o) /\ UNCHANGED clientVars
  \/ \E o \in handlers : ~MicrotaskPending /\ SendResume(o) /\ UNCHANGED clientVars

Next == ServerNext(MaxOps, RoomIds, {<<"h">>})
Spec == Init /\ [][Next]_vars

\* more handler invocations, on one room, with blank texts too
NextOneRoom == ServerNext(MaxOpsOneRoom, {"r1"}, Texts)
SpecOneRoom == Init /\ [][NextOneRoom]_vars

\* ------------------------------------------------------------- client (App)
\* socket.once('room-history', history => setMessages(history || []))
handleRoomHistory(s, e) ==
  IF historyListener[s]
    THEN /\ messages' = [messages EXCEPT ![s] = e.history]
         /\ historyListener' = [historyListener EXCEPT ![s] = FALSE]
         /\ installedReq' = [installedReq EXCEPT ![s] = e.req]
    ELSE UNCHANGED <<messages, historyListener, installedReq>>

\* handleNewMessage: append when the message is of the selected room
handleNewMessage(s, message) ==
  /\ messages' = [messages EXCEPT ![s] =
       IF selectedRoom[s] # NoRoom /\ message.room_id = selectedRoom[s]
         THEN Append(@, message) ELSE @]
  /\ UNCHANGED <<historyListener, installedReq>>

\* handleNewRoom(data): fetchUserRooms() if the user is among data.participants
\* (the user's email is the name of its session)
handleNewRoom(s, data) ==
  IF \E i \in 1..Len(data.participants) : data.participants[i].user_email = s
    THEN [refreshes EXCEPT ![s] = @ + 1]
    ELSE refreshes

\* the client's socket delivers the next event the server wrote to it
Receive(s) ==
  /\ Open(s)
  /\ rcvd[s] < Len(outbox[s])
  /\ LET e == outbox[s][rcvd[s] + 1]
     IN /\ e.written
        /\ CASE e.type = "room-history" -> handleRoomHistory(s, e)
             [] e.type = "new-message" -> handleNewMessage(s, e.msg)
             [] OTHER -> UNCHANGED <<messages, historyListener, installedReq>>
        /\ refreshes' = IF e.type = "new-room" THEN handleNewRoom(s, e.data)
                                                ELSE refreshes
  /\ rcvd' = [rcvd EXCEPT ![s] = @ + 1]
  /\ UNCHANGED <<selectedRoom, lastJoin>>
  /\ UNCHANGED serverVars

\* selectRoom(room): setSelectedRoom, setMessages([]), off('room-history'),
\* emit('join-room'), once('room-history')
selectRoom(s, room) ==
  /\ selectedRoom' = [selectedRoom EXCEPT ![s] = room]
  /\ messages' = [messages EXCEPT ![s] = << >>]
  /\ historyListener' = [historyListener EXCEPT ![s] = TRUE]
  /\ lastJoin' = [lastJoin EXCEPT ![s] = nextId]
  /\ installedReq' = [installedReq EXCEPT ![s] = 0]
  /\ JoinRoom(s, room)
  /\ UNCHANGED <<rcvd, refreshes>>

\* sendMessage(): if (!newMessage.trim() || !selectedRoom) return; emit
sendMessage(s, newMessage) ==
  /\ Trim(newMessage) # << >>
  /\ selectedRoom[s] # NoRoom
  /\ SendMessage(s, selectedRoom[s], newMessage)
  /\ UNCHANGED clientVars

\* the server under App clients: at most n handler invocations
AppNext(n) ==
  \/ \E s \in Sessions : ~MicrotaskPending /\ Connect(s) /\ UNCHANGED clientVars
  \/ \E s \in Sessions : ~MicrotaskPending /\ Disconnect(s) /\ UNCHANGED clientVars
  \/ \E s \in Sessions, r \in RoomIds :
       ~MicrotaskPending /\ nextId <= n /\ selectRoom(s, r)
  \/ \E s \in Sessions, text \in Texts :
       ~MicrotaskPending /\ nextId <= n /\ sendMessage(s, text)
  \/ \E o \in handlers : ~MicrotaskPending /\ StoreSelect(o) /\ UNCHANGED clientVars
  \/ \E o \in handlers : ~MicrotaskPending /\ JoinResume(o) /\ UNCHANGED clientVars
  \/ \E o \in handlers : JoinPresence(o) /\ UNCHANGED clientVars
  \/ \E o \in handlers : ~MicrotaskPending /\ StoreInsert(o) /\ UNCHANGED clientVars
  \/ \E o \in handlers : ~MicrotaskPending /\ SendResume(o) /\ UNCHANGED clientVars
  \/ \E s \in Sessions : Receive(s)

NextApp == AppNext(MaxOpsApp)
SpecApp == Init /\ [][NextApp]_vars

\* App clients that switch rooms: fewer handler invocations
NextSwitch == AppNext(MaxOpsSwitch)
SpecSwitch == Init /\ [][NextSwitch]_vars


\* ------------------------------------------------------------- POST /api/rooms
Emails == Sessions                       \* user emails
ParticipantLists == {<< >>} \cup {<<u>> : u \in Emails}   \* req.body.participants

\* app.post('/api/rooms'), up to the await of the insert into rooms
CreateRoom(creatorEmail, participants) ==
  /\ handlers' = handlers \cup
       {[id |-> nextId, kind |-> "post", creatorEmail |-> creatorEmail,
         participants |-> participants, pc |-> "insertRoom", err |-> FALSE]}
  /\ nextId' = nextId + 1
  /\ UNCHANGED <<status, rooms, store, outbox, joined, finished>>

\* the Store answers an insert of post handler o: done, or an error
StoreInsertRoom(o) ==
  /\ o \in handlers /\ o.kind = "post" /\ o.pc = "insertRoom"
  /\ \E e \in BOOLEAN :
       handlers' = (handlers \ {o}) \cup {[o EXCEPT !.pc = "roomInserted", !.err = e]}
  /\ UNCHANGED <<status, rooms, store, outbox, nextId, joined, finished>>

StoreInsertParticipants(o) ==
  /\ o \in handlers /\ o.kind = "post" /\ o.pc = "insertParticipants"
  /\ \E e \in BOOLEAN :
       handlers' = (handlers \ {o}) \cup
         {[o EXCEPT !.pc = "participantsInserted", !.err = e]}
  /\ UNCHANGED <<status, rooms, store, outbox, nextId, joined, finished>>

PostDone(o) == [id |-> o.id, kind |-> o.kind, creatorEmail |-> o.creatorEmail,
                participants |-> o.participants, err |-> o.err, at |-> o.pc]

\* if (roomError) throw roomError; else the insert into room_participants
PostRoomResume(o) ==
  /\ o \in handlers /\ o.kind = "post" /\ o.pc = "roomInserted"
  /\ IF o.err
       THEN /\ handlers' = handlers \ {o}
            /\ finished' = finished \cup {PostDone(o)}
       ELSE /\ handlers' = (handlers \ {o}) \cup {[o EXCEPT !.pc = "insertParticipants"]}
            /\ finished' = finished
  /\ UNCHANGED <<status, rooms, store, outbox, nextId, joined>>

\* [...participants, req.body.creatorEmail].map(email => ({room_id, user_email}))
AllParticipants(o) ==
  [i \in 1..(Len(o.participants) + 1) |->
     [room_id |-> o.id, user_email |-> Append(o.participants, o.creatorEmail)[i]]]

\* (mutant) the event goes to the sockets of the listed participants
NewRoomRecipientsListed(o) ==
  {t \in Sessions : Open(t) /\ \E i \in 1..Len(AllParticipants(o)) :
                                 AllParticipants(o)[i].user_email = t}

\* io.emit: every connected socket
NewRoomRecipients(o) == {t \in Sessions : Open(t)}

\* if (participantsError) throw participantsError;
\* io.emit('new-room', {room, participants: allParticipants}); res.json(room)
PostResume(o) ==
  /\ o \in handlers /\ o.kind = "post" /\ o.pc = "participantsInserted"
  /\ outbox' = IF o.err THEN outbox
               ELSE Broadcast(outbox, NewRoomRecipients(o),
                              NewRoomEvent(o.id, AllParticipants(o)))
  /\ handlers' = handlers \ {o}
  /\ finished' = finished \cup {PostDone(o)}
  /\ UNCHANGED <<status, rooms, store, nextId, joined>>

\* the server under App clients that listen and HTTP clients that create
\* rooms: at most MaxPosts requests
NextRooms ==
  \/ \E s \in Sessions : Connect(s) /\ UNCHANGED clientVars
  \/ \E s \in Sessions : Disconnect(s) /\ UNCHANGED clientVars
  \/ \E u \in Emails, p \in ParticipantLists :
       nextId <= MaxPosts /\ CreateRoom(u, p) /\ UNCHANGED clientVars
  \/ \E o \in handlers : StoreInsertRoom(o) /\ UNCHANGED clientVars
  \/ \E o \in handlers : PostRoomResume(o) /\ UNCHANGED clientVars
  \/ \E o \in handlers : StoreInsertParticipants(o) /\ UNCHANGED clientVars
  \/ \E o \in handlers : PostResume(o) /\ UNCHANGED clientVars
  \/ \E s \in Sessions : Receive(s)

SpecRooms == Init /\ [][NextRooms]_vars

\* ------------------------------------------------------------- observations
Events(s) == Range(outbox[s])
EventsOfType(s, ty) == {e \in Events(s) : e.type = ty}
\* positions of outbox[s] holding an event of type ty
At(s, ty) == {i \in 1..Len(outbox[s]) : outbox[s][i].type = ty}
\* the place of row m in the commit order (0: not committed)
StorePos(m) ==
  IF \E k \in 1..Len(store) : store[k].id = m.id
    THEN CHOOSE k \in 1..Len(store) : store[k].id = m.id
    ELSE 0
SendsInFlight == {o \in handlers : o.kind = "send"}
JoinsInFlight == {o \in handlers : o.kind = "join"}
FinishedSends == {f \in finished : f.kind = "send"}
FinishedJoins == {f \in finished : f.kind = "join"}

\* ------------------------------------------------------------- claims

\* C1: two sends to one room by different sessions reach every member as
\* new-message events in the order in which the Store committed them.
C1_BroadcastOrderIsCommitOrder ==
  \A t \in Sessions : \A i, j \in At(t, "new-message") :
    LET a == outbox[t][i].msg
        b == outbox[t][j].msg
    IN (i < j /\ a.room_id = b.room_id /\ a.user_email # b.user_email)
         => StorePos(a) < StorePos(b)

\* C2: a new-message for a message is emitted only after the insert of that
\* message has completed successfully: the message of every new-message event
\* is a committed row, and its handler is past the insert without an error.
C2_BroadcastOnlyAfterCommit ==
  \A t \in Sessions : \A e \in EventsOfType(t, "new-message") :
    /\ StorePos(e.msg) > 0
    /\ store[StorePos(e.msg)] = e.msg
    /\ \E f \in FinishedSends : f.id = e.msg.id /\ ~f.err

C2_Witness ==
  \E t \in Sessions : \E e \in EventsOfType(t, "new-message") : e.msg.user_email # t

\* positions of outbox[t] holding the error / room-history / new-message of
\* invocation id
ErrorsFor(t, id) == {i \in At(t, "error") : outbox[t][i].req = id}
HistoriesFor(t, id) == {i \in At(t, "room-history") : outbox[t][i].req = id}
NewMessagesFor(t, id) == {i \in At(t, "new-message") : outbox[t][i].msg.id = id}
Committed(id) == \E k \in 1..Len(store) : store[k].id = id

\* C3: when the insert of a send fails, one error event is sent, to the sender
\* only; no new-message is emitted for it and no row is committed for it; and
\* the member sets are what the joins and disconnects made them.
C3_FailedInsertIsolated ==
  /\ \A f \in FinishedSends : f.err =>
       /\ Cardinality(ErrorsFor(f.s, f.id)) = 1
       /\ \A t \in Sessions \ {f.s} : ErrorsFor(t, f.id) = {}
       /\ \A t \in Sessions : NewMessagesFor(t, f.id) = {}
       /\ ~Committed(f.id)
  /\ \A o \in SendsInFlight : (o.pc = "inserted" /\ o.err) =>
       /\ \A t \in Sessions : ErrorsFor(t, o.id) = {} /\ NewMessagesFor(t, o.id) = {}
       /\ ~Committed(o.id)
  /\ \A r \in RoomIds : rooms[r] = {s \in Sessions : Open(s) /\ r \in joined[s]}

C3_Witness ==
  \E f \in FinishedSends :
    /\ f.err
    /\ Open(f.s)
    /\ \E t \in rooms[f.room] : t # f.s

\* C4: when the insert of a send to room R succeeds, the step that resumes the
\* handler appends the new-message to the stream of every member of R at that
\* moment, the sender among them when it has joined R and is still connected.
C4_FanOutToMembers ==
  [][\A o \in handlers :
       (o.kind = "send" /\ o.pc = "inserted" /\ ~o.err /\ o \notin handlers') =>
         \A t \in Sessions :
           (t \in rooms[o.room] \/ (t = o.s /\ Open(t) /\ o.room \in joined[t])) =>
             outbox'[t] = Append(outbox[t], NewMessageEvent(o.msg))]_vars

C4_Witness ==
  \E f \in FinishedSends :
    /\ ~f.err
    /\ f.room \in joined[f.s]
    /\ NewMessagesFor(f.s, f.id) # {}

\* C5: a send whose text is empty after trimming, or whose room is unknown to
\* the Store, is rejected: an error goes to the sender, nothing is inserted,
\* no new-message is emitted.
C5_BlankOrUnknownRejected ==
  /\ \A k \in 1..Len(store) :
       Trim(store[k].text) # << >> /\ store[k].room_id \in RoomIds
  /\ \A f \in FinishedSends : (Trim(f.text) = << >> \/ f.room \notin RoomIds) =>
       /\ ErrorsFor(f.s, f.id) # {}
       /\ ~Committed(f.id)
       /\ \A t \in Sessions : NewMessagesFor(t, f.id) = {}

\* the rows of room r among the first n rows of the table
RowsAsOf(r, n) == {store[k] : k \in {j \in 1..n : store[j].room_id = r}}

\* a room-history event carries the rows its room had at the read, each once,
\* ascending in created_at
WellFormedHistory(e) ==
  /\ IsAscending(e.history)
  /\ e.asOf <= Len(store)
  /\ Range(e.history) = RowsAsOf(e.room, e.asOf)
  /\ Len(e.history) = Cardinality(RowsAsOf(e.room, e.asOf))

C7_FailedReadKeepsJoin ==
  \A f \in FinishedJoins : f.err =>
    /\ Cardinality(ErrorsFor(f.s, f.id)) = 1
    /\ \A t \in Sessions \ {f.s} : ErrorsFor(t, f.id) = {}
    /\ Open(f.s) =>
         /\ f.s \in rooms[f.room]
         /\ \A i \in ErrorsFor(f.s, f.id) : outbox[f.s][i].written

C7_Witness ==
  \E f \in FinishedJoins :
    /\ f.err
    /\ Open(f.s)
    /\ rooms[f.room] \ {f.s} # {}

\* C9: for every session and room, the room-history of a join followed by the
\* new-message events the session then receives for the room runs in the
\* order of the Store's sequence for the room: the history is a prefix of it,
\* the broadcasts continue it in order.
C9_HistoryThenLiveFollowsStore ==
  \A t \in Sessions : \A i \in At(t, "room-history") :
    LET e == outbox[t][i]
        rows == RoomRows(e.room)
        live == {j \in At(t, "new-message") :
                   j > i /\ outbox[t][j].msg.room_id = e.room}
    IN /\ Len(e.history) <= Len(rows)
       /\ \A k \in 1..Len(e.history) : e.history[k] = rows[k]
       /\ \A k \in 1..Len(e.history) : \A j \in live :
            StorePos(e.history[k]) <= StorePos(outbox[t][j].msg)
       /\ \A j1, j2 \in live :
            j1 < j2 => StorePos(outbox[t][j1].msg) < StorePos(outbox[t][j2].msg)

\* the events appended to the stream of t by a step
Appended(t) == {i \in 1..Len(outbox'[t]) : i > Len(outbox[t])}

\* C10: after a session disconnects it is in no member set, and for each room
\* it was in, one active-users event with the count after the removal is
\* emitted to the remaining members.
C10_DisconnectRecounts ==
  [][\A s \in Sessions : (Open(s) /\ status'[s] = "disconnected") =>
       /\ \A r \in RoomIds : s \notin rooms'[r]
       /\ \A r \in RoomIds : s \in rooms[r] =>
            \A t \in rooms'[r] :
              Cardinality({i \in Appended(t) :
                             /\ outbox'[t][i].type = "active-users"
                             /\ outbox'[t][i].room = r
                             /\ outbox'[t][i].count = Cardinality(rooms'[r])}) = 1]_vars

\* the client has consumed the room-history of invocation id
HistoryConsumed(s, id) ==
  \E i \in 1..rcvd[s] : outbox[s][i].type = "room-history" /\ outbox[s][i].req = id

\* the rooms of the room-history that App.messages was last set from
InstalledFrom(s) == {outbox[s][i].room : i \in HistoriesFor(s, installedReq[s])}

\* C8: a client that selects room A and then room B before A's history has
\* arrived never shows A's history as the messages of B, and B's own history
\* is not dropped: once the client has consumed the history of its latest
\* join-room, the message list is set from that history.
C8_HistoryScopedToItsJoin ==
  \A s \in Sessions :
    /\ InstalledFrom(s) \subseteq {selectedRoom[s]}
    /\ (lastJoin[s] # 0 /\ HistoryConsumed(s, lastJoin[s])) => installedReq[s] = lastJoin[s]

\* positions of outbox[t] holding the active-users of invocation id / of room r
ActiveUsersFor(t, id) == {i \in At(t, "active-users") : outbox[t][i].req = id}
ActiveUsersOf(t, r) == {i \in At(t, "active-users") : outbox[t][i].room = r}

\* C11: every join-room that added the session to the room is followed by an
\* active-users broadcast to the members of the room, whatever the outcome of
\* the history read: once the handler has returned, a joiner that is still
\* connected has received the active-users of its join.
C11_JoinIsFollowedByPresence ==
  \A f \in FinishedJoins : Open(f.s) => ActiveUsersFor(f.s, f.id) # {}

\* C12: after k sessions have joined room R, with no disconnect and all join
\* handlers returned, the last active-users event of every member of R
\* carries k.
C12_LastCountIsMemberCount ==
  (JoinsInFlight = {} /\ \A s \in Sessions : status[s] # "disconnected") =>
    \A r \in RoomIds : \A t \in rooms[r] :
      /\ ActiveUsersOf(t, r) # {}
      /\ \A i \in ActiveUsersOf(t, r) :
           (\A j \in ActiveUsersOf(t, r) : j <= i) =>
             outbox[t][i].count = Cardinality(rooms[r])

\* join handlers that have added their socket to the room and have not yet
\* emitted their active-users
JoinsBeforePresence == {o \in JoinsInFlight : ActiveUsersFor(o.s, o.id) = {}}

\* C13: between the moment a join adds the session to room R and the moment
\* the active-users of that join is emitted, no other join or disconnect
\* changes the member set of R and no other presence broadcast for R is made.
C13_JoinAndPresenceAreOneSection ==
  [][\A o \in JoinsBeforePresence :
       /\ rooms'[o.room] = rooms[o.room]
       /\ \A t \in Sessions : \A i \in Appended(t) :
            (outbox'[t][i].type = "active-users" /\ outbox'[t][i].room = o.room)
              => outbox'[t][i].req = o.id]_vars

\* C14: a session disconnects while its own history read or insert is in
\* flight: the handler still runs to its end, nothing it emits is written to
\* the disconnected session, the member sets are as they were, and a message
\* whose insert succeeded is broadcast to every member of the room.
C14_DisconnectInFlightIsHarmless ==
  [][\A o \in handlers : (status[o.s] = "disconnected" /\ o \notin handlers') =>
       /\ rooms' = rooms
       /\ \A i \in Appended(o.s) : ~outbox'[o.s][i].written
       /\ (o.pc \in {"selected", "inserted"} /\ o.err) =>
            /\ Done(o) \in finished'
            /\ \A t \in Sessions \ {o.s} : Appended(t) = {}
       /\ (o.pc = "inserted" /\ ~o.err) =>
            /\ Done(o) \in finished'
            /\ \A t \in rooms[o.room] :
                 \E i \in Appended(t) : outbox'[t][i] = NewMessageEvent(o.msg)]_vars

C14_Witness ==
  \E f \in FinishedSends :
    /\ ~f.err
    /\ status[f.s] = "disconnected"
    /\ \E t \in Sessions \ {f.s} : NewMessagesFor(t, f.id) # {}

\* the join-room invocations of session s for room r, returned or not
JoinsOf(s, r) ==
  {o.id : o \in {h \in handlers \cup finished : h.kind = "join" /\ h.s = s /\ h.room = r}}

\* C15: a session is in the member set of room R exactly if it has performed
\* join-room for R and has not disconnected since (the server has no leave);
\* a join-room for R by a session that is a member leaves the member sets as
\* they were.
C15_MemberIffJoinedAndConnected ==
  [][/\ \A r \in RoomIds :
          rooms'[r] = {s \in Sessions : status'[s] = "connected" /\ JoinsOf(s, r)' # {}}
     /\ \A s \in Sessions, r \in RoomIds :
          (s \in rooms[r] /\ JoinsOf(s, r)' # JoinsOf(s, r)) => rooms' = rooms]_vars

C15_Witness ==
  \E s \in Sessions, r \in RoomIds :
    /\ Cardinality(JoinsOf(s, r)) = 2
    /\ s \in rooms[r]
    /\ \E t \in Sessions : status[t] = "disconnected"

\* C16: send-message has no membership check: when the handler of a send for
\* room R by a connected session that is not a member of R resumes after an
\* insert that succeeded, the row is in the Store and the new-message goes to
\* exactly the members of R, and no error event is emitted; the only error
\* such a sender gets is the one of a failed insert.
C16_NonMemberSendIsBroadcast ==
  [][\A o \in handlers :
       (/\ o.kind = "send" /\ o.pc = "inserted" /\ o \notin handlers'
        /\ Open(o.s) /\ o.s \notin rooms[o.room]) =>
         IF o.err
           THEN /\ ~Committed(o.id)
                /\ outbox' = EmitTo(outbox, o.s,
                                    ErrorEvent(o.id, "Failed to send message", TRUE))
           ELSE /\ Committed(o.id)
                /\ outbox' = Broadcast(outbox, rooms[o.room], NewMessageEvent(o.msg))]_vars

C16_Witness ==
  \E f \in FinishedSends :
    /\ ~f.err
    /\ Open(f.s)
    /\ JoinsOf(f.s, f.room) = {}
    /\ \E t \in rooms[f.room] : NewMessagesFor(t, f.id) # {}

\* C19: the count of every active-users event for room R is the size of the
\* member set of R at the moment of the emission: the member set does not
\* change between the read of allSockets() and the emit.
C19_CountIsMemberCountAtEmission ==
  [][/\ \A t \in Sessions : \A i \in Appended(t) :
          outbox'[t][i].type = "active-users" =>
            /\ outbox'[t][i].count = Cardinality(rooms[outbox'[t][i].room])
            /\ t \in rooms[outbox'[t][i].room]
     /\ \A o \in handlers' : o.pc = "allSockets" => o.clients = rooms'[o.room]]_vars

C19_Witness ==
  \E t \in Sessions : \E i \in At(t, "active-users") :
    /\ outbox[t][i].count = 2
    /\ \E f \in FinishedJoins : f.id = outbox[t][i].req /\ f.s # t

\* the room-history events emitted to session s for room r
HistoriesOf(s, r) == {i \in At(s, "room-history") : outbox[s][i].room = r}

\* the send-message invocations for room r whose insert succeeded and whose
\* handler has returned
SentTo(r) == {g \in FinishedSends : g.room = r /\ ~g.err}

HistoryHas(e, id) == \E k \in 1..Len(e.history) : e.history[k].id = id

\* C20: no committed message is missed by a session that joins room R and
\* stays connected: once its join handlers have returned, every message
\* inserted for R is in a room-history it received or was delivered to it as
\* new-message.
C20_NoCommittedMessageMissed ==
  \A s \in Sessions, r \in RoomIds :
    (/\ Open(s) /\ JoinsOf(s, r) # {}
     /\ \A o \in JoinsInFlight : ~(o.s = s /\ o.room = r)) =>
      \A g \in SentTo(r) :
        \/ \E i \in HistoriesOf(s, r) : HistoryHas(outbox[s][i], g.id)
        \/ NewMessagesFor(s, g.id) # {}

\* C20 (amended): the same for a join whose history read succeeded: every
\* message inserted for R is in the room-history of that join or was
\* delivered to the session as new-message.
C20_NoMessageMissedWhenReadSucceeds ==
  \A s \in Sessions, r \in RoomIds :
    Open(s) =>
      \A i \in HistoriesOf(s, r) : \A g \in SentTo(r) :
        \/ HistoryHas(outbox[s][i], g.id)
        \/ NewMessagesFor(s, g.id) # {}

C20_Witness ==
  \E s \in Sessions, r \in RoomIds :
    /\ Open(s)
    /\ \E i \in HistoriesOf(s, r) : \E g \in SentTo(r) :
         /\ g.id > outbox[s][i].req
         /\ ~HistoryHas(outbox[s][i], g.id)
         /\ NewMessagesFor(s, g.id) # {}

\* the new-room events session s has consumed, and those that list s
NewRoomsSeen(s) == {i \in 1..rcvd[s] : outbox[s][i].type = "new-room"}
ListedIn(s, e) ==
  \E k \in 1..Len(e.data.participants) : e.data.participants[k].user_email = s

\* C17: when a room has been created (both inserts succeeded) the new-room
\* event is emitted to every connected session, listed as a participant or
\* not, and to nobody when the creation failed; a client has refreshed its
\* room list once for each new-room event it consumed that lists its own
\* identity, and not for the others.
C17_NewRoomToAllRefreshIfListed ==
  [][/\ \A o \in handlers :
          (o.kind = "post" /\ o.pc = "participantsInserted" /\ o \notin handlers') =>
            \A t \in Sessions :
              outbox'[t] = IF Open(t) /\ ~o.err
                             THEN Append(outbox[t], NewRoomEvent(o.id, AllParticipants(o)))
                             ELSE outbox[t]
     /\ \A o \in handlers :
          (o.kind = "post" /\ o.pc = "roomInserted" /\ o \notin handlers') =>
            outbox' = outbox
     /\ \A s \in Sessions :
          refreshes'[s] =
            Cardinality({i \in NewRoomsSeen(s)' : ListedIn(s, outbox'[s][i])})]_vars

C17_Witness ==
  \E s, t \in Sessions :
    /\ \E i \in NewRoomsSeen(t) : ~ListedIn(t, outbox[t][i])
    /\ refreshes[t] = 0
    /\ \E i \in NewRoomsSeen(s) : ListedIn(s, outbox[s][i])
    /\ refreshes[s] = 1

\* a continuation of a handler whose awaited promise has settled
Resumes ==
  \E o \in handlers :
    /\ \/ ~MicrotaskPending /\ JoinResume(o)
       \/ JoinPresence(o)
       \/ ~MicrotaskPending /\ SendResume(o)
    /\ UNCHANGED clientVars

\* The event loop runs every continuation that is ready.  Nothing makes the
\* Store answer: the handlers await its promise without a timeout, so the
\* answers of the Store (StoreSelect, StoreInsert) have no fairness.
SpecLive == Init /\ [][Next]_vars /\ WF_vars(Resumes)

InFlight(n) == \E o \in handlers : o.id = n

\* invocation n has emitted its response to the requesting session
\* (room-history or error for a join, new-message or error for a send), or
\* that session has disconnected
AnsweredOrGone(n) ==
  \E o \in handlers \cup finished :
    /\ o.id = n
    /\ \/ ~Open(o.s)
       \/ ErrorsFor(o.s, n) # {}
       \/ o.kind = "join" /\ HistoriesFor(o.s, n) # {}
       \/ o.kind = "send" /\ NewMessagesFor(o.s, n) # {}

\* C18: every join-room and send-message eventually produces a response to
\* the requesting session (room-history or error; new-message or error), also
\* when the Store never answers: the call then times out and is handled as a
\* Store failure.
C18_EveryRequestIsAnswered ==
  \A n \in 1..MaxOps : InFlight(n) ~> AnsweredOrGone(n)

\* C21: for one join of a session to room R no message is delivered twice: a
\* message in the room-history of the join is not also delivered to the
\* session as new-message, even when its insert overlaps the history read.
\* (A session with one join-room for R has received every new-message of R
\* after that join.)
C21_NoDuplicateDelivery ==
  \A s \in Sessions, r \in RoomIds :
    Cardinality(JoinsOf(s, r)) = 1 =>
      \A i \in HistoriesOf(s, r) : \A k \in 1..Len(outbox[s][i].history) :
        NewMessagesFor(s, outbox[s][i].history[k].id) = {}

\* C22: in the client, a new-message of the selected room that is in the
\* displayed list is not discarded while the room stays selected: no event
\* the client consumes (a room-history in particular) leaves the list without
\* a message it held.
C22_DisplayedMessageIsKept ==
  [][\A s \in Sessions :
       (rcvd'[s] # rcvd[s] /\ selectedRoom'[s] = selectedRoom[s]) =>
         \A k \in 1..Len(messages[s]) :
           \E j \in 1..Len(messages'[s]) : messages'[s][j].id = messages[s][k].id]_vars

\* the rooms session s is joined to
RoomsOf(s) == {r \in RoomIds : s \in rooms[r]}

====
